---- MODULE Spec2Model ----
(***************************************************************************)
(* Model of src/reject.rs: the HTTPError enum, its Display formatting, its *)
(* two constructor functions, its untagged serialization and its           *)
(* conversion into a response (into_response).                             *)
(*                                                                         *)
(* Text is a sequence of characters (one-character strings), so that       *)
(* concatenation, equality and "contains a newline" are computed.          *)
(* Option<T> is a sequence of length 0 (None) or 1 (Some).                 *)
(***************************************************************************)
EXTENDS Naturals, Sequences, FiniteSets

\* ------------------------------------------------------------------ bounds
\* longest message / backtrace text drawn letter by letter
MaxLen == 1
\* number of HTTPError values converted in one behaviour
MaxConversions == 2

\* ------------------------------------------------------- program constants
MESSAGE_NOT_FOUND == <<"n", "o", "t", " ", "f", "o", "u", "n", "d">>
MESSAGE_FORBIDDEN == <<"f", "o", "r", "b", "i", "d", "d", "e", "n">>
MESSAGE_INTERNAL_SERVER_ERROR ==
    <<"i", "n", "t", "e", "r", "n", "a", "l", " ", "s", "e", "r", "v", "e", "r",
      " ", "e", "r", "r", "o", "r">>

\* axum::http::StatusCode constants used by into_response
BAD_REQUEST == 400
FORBIDDEN == 403
NOT_FOUND == 404
INTERNAL_SERVER_ERROR == 500

\* the literal pieces of the format strings of fmt
FMT_BAD_REQUEST == <<"b", "a", "d", " ", "r", "e", "q", "u", "e", "s", "t", ":", " ">>
FMT_INTERNAL_SERVER_ERROR ==
    <<"i", "n", "t", "e", "r", "n", "a", "l", " ", "s", "e", "r", "v", "e", "r",
      " ", "e", "r", "r", "o", "r", ":", " ">>
NL == "\n"

\* ------------------------------------------------------------------ inputs
None == <<>>
Some(x) == <<x>>

MsgAlphabet == {"a", NL}
BtAlphabet == {"b"}

RECURSIVE StringsUpTo(_, _)
StringsUpTo(alphabet, n) ==
    IF n = 0 THEN {<<>>}
    ELSE LET shorter == StringsUpTo(alphabet, n - 1)
         IN  shorter \cup {Append(s, c) : s \in shorter, c \in alphabet}

\* message texts a caller may supply: every short text, and the texts the
\* module itself uses as bodies
Texts == StringsUpTo(MsgAlphabet, MaxLen) \cup {MESSAGE_INTERNAL_SERVER_ERROR}
Backtraces == StringsUpTo(BtAlphabet, MaxLen)

\* ------------------------------------------------------------ the enum
BadRequest(error) == [variant |-> "BadRequest", error |-> error]
Forbidden == [variant |-> "Forbidden"]
NotFound == [variant |-> "NotFound"]
InternalServerError(error, backtrace) ==
    [variant |-> "InternalServerError", error |-> error, backtrace |-> backtrace]

\* every value of the public enum HTTPError over the inputs
HTTPError ==
    {BadRequest(e) : e \in Texts}
    \cup {Forbidden, NotFound}
    \cup {InternalServerError(e, None) : e \in Texts}
    \cup {InternalServerError(e, Some(b)) : e \in Texts, b \in Backtraces}

\* String::to_string / str::to_string: a fresh copy, character by character
RECURSIVE ToString(_)
ToString(s) == IF s = <<>> THEN <<>> ELSE <<Head(s)>> \o ToString(Tail(s))

\* ------------------------------------------------------------ constructors
\* variant: the message is stored with its newlines stripped
bad_request_trimmed(s) ==
    BadRequest(SelectSeq(ToString(s), LAMBDA c : c # NL))

bad_request(s) == BadRequest(ToString(s))

\* variant: the constructor captures a (here empty) backtrace
internal_server_error_captured(e) == InternalServerError(ToString(e), Some(<<>>))

internal_server_error(e) == InternalServerError(ToString(e), None)

\* ------------------------------------------------------------ Display
\* variant: the backtrace-less arm omits the message
fmt_no_message(self) ==
    CASE self.variant = "BadRequest" -> FMT_BAD_REQUEST \o self.error
      [] self.variant = "Forbidden" -> MESSAGE_FORBIDDEN
      [] self.variant = "NotFound" -> MESSAGE_NOT_FOUND
      [] self.variant = "InternalServerError" /\ self.backtrace # None ->
            FMT_INTERNAL_SERVER_ERROR \o self.error \o <<NL>> \o self.backtrace[1]
      [] self.variant = "InternalServerError" /\ self.backtrace = None ->
            MESSAGE_INTERNAL_SERVER_ERROR

\* variant: writeln! instead of write! in the Forbidden arm
fmt_writeln(self) ==
    CASE self.variant = "BadRequest" -> FMT_BAD_REQUEST \o self.error
      [] self.variant = "Forbidden" -> MESSAGE_FORBIDDEN \o <<NL>>
      [] self.variant = "NotFound" -> MESSAGE_NOT_FOUND
      [] self.variant = "InternalServerError" /\ self.backtrace # None ->
            FMT_INTERNAL_SERVER_ERROR \o self.error \o <<NL>> \o self.backtrace[1]
      [] self.variant = "InternalServerError" /\ self.backtrace = None ->
            FMT_INTERNAL_SERVER_ERROR \o self.error

fmt(self) ==
    CASE self.variant = "BadRequest" -> FMT_BAD_REQUEST \o self.error
      [] self.variant = "Forbidden" -> MESSAGE_FORBIDDEN
      [] self.variant = "NotFound" -> MESSAGE_NOT_FOUND
      [] self.variant = "InternalServerError" /\ self.backtrace # None ->
            FMT_INTERNAL_SERVER_ERROR \o self.error \o <<NL>> \o self.backtrace[1]
      [] self.variant = "InternalServerError" /\ self.backtrace = None ->
            FMT_INTERNAL_SERVER_ERROR \o self.error

\* ------------------------------------------------------------ Serialize
\* #[derive(Serialize)] #[serde(untagged)]: a unit variant is serialized as
\* unit, a struct variant as a struct of its fields in declaration order;
\* no variant name is written.
Field(name, val) == [name |-> name, val |-> val]

\* variant: serde's default (externally tagged) representation
serialize_tagged(self) ==
    CASE self.variant = "BadRequest" ->
            [tag |-> Some("BadRequest"), shape |-> "struct",
             fields |-> <<Field("error", self.error)>>]
      [] self.variant = "Forbidden" ->
            [tag |-> Some("Forbidden"), shape |-> "unit", fields |-> <<>>]
      [] self.variant = "NotFound" ->
            [tag |-> Some("NotFound"), shape |-> "unit", fields |-> <<>>]
      [] self.variant = "InternalServerError" ->
            [tag |-> Some("InternalServerError"), shape |-> "struct",
             fields |-> <<Field("error", self.error),
                          Field("backtrace", self.backtrace)>>]

serialize(self) ==
    CASE self.variant = "BadRequest" ->
            [tag |-> None, shape |-> "struct",
             fields |-> <<Field("error", self.error)>>]
      [] self.variant = "Forbidden" ->
            [tag |-> None, shape |-> "unit", fields |-> <<>>]
      [] self.variant = "NotFound" ->
            [tag |-> None, shape |-> "unit", fields |-> <<>>]
      [] self.variant = "InternalServerError" ->
            [tag |-> None, shape |-> "struct",
             fields |-> <<Field("error", self.error),
                          Field("backtrace", self.backtrace)>>]

\* ------------------------------------------------------------ IntoResponse
\* the two outward calls into_response makes, in the order it makes them
\* tracing::error!(text)
LogError(text) == [kind |-> "log", level |-> "ERROR", text |-> text]
\* reply::error(message, status)
ReplyError(message, status) == [kind |-> "reply", status |-> status, text |-> message]

\* the InternalServerError arm: the log record, then the generic reply
InternalArm(self) ==
    <<IF self.backtrace # None
        THEN LogError(self.error \o <<NL>> \o self.backtrace[1])
        ELSE LogError(self.error),
      ReplyError(MESSAGE_INTERNAL_SERVER_ERROR, INTERNAL_SERVER_ERROR)>>

\* variant: the internal error is reported with its Display text
into_response_display(self) ==
    CASE self.variant = "BadRequest" -> <<ReplyError(self.error, BAD_REQUEST)>>
      [] self.variant = "Forbidden" -> <<ReplyError(MESSAGE_FORBIDDEN, FORBIDDEN)>>
      [] self.variant = "NotFound" -> <<ReplyError(MESSAGE_NOT_FOUND, NOT_FOUND)>>
      [] self.variant = "InternalServerError" ->
            <<InternalArm(self)[1], ReplyError(fmt(self), INTERNAL_SERVER_ERROR)>>

\* variant: the internal error is reported with its own message
into_response_leak(self) ==
    CASE self.variant = "BadRequest" -> <<ReplyError(self.error, BAD_REQUEST)>>
      [] self.variant = "Forbidden" -> <<ReplyError(MESSAGE_FORBIDDEN, FORBIDDEN)>>
      [] self.variant = "NotFound" -> <<ReplyError(MESSAGE_NOT_FOUND, NOT_FOUND)>>
      [] self.variant = "InternalServerError" ->
            <<InternalArm(self)[1], ReplyError(self.error, INTERNAL_SERVER_ERROR)>>

\* variant: the backtrace is left out of the log record
into_response_no_backtrace(self) ==
    CASE self.variant = "BadRequest" -> <<ReplyError(self.error, BAD_REQUEST)>>
      [] self.variant = "Forbidden" -> <<ReplyError(MESSAGE_FORBIDDEN, FORBIDDEN)>>
      [] self.variant = "NotFound" -> <<ReplyError(MESSAGE_NOT_FOUND, NOT_FOUND)>>
      [] self.variant = "InternalServerError" ->
            <<LogError(self.error),
              ReplyError(MESSAGE_INTERNAL_SERVER_ERROR, INTERNAL_SERVER_ERROR)>>

\* variant: the two constant messages are exchanged
into_response_swapped(self) ==
    CASE self.variant = "BadRequest" -> <<ReplyError(self.error, BAD_REQUEST)>>
      [] self.variant = "Forbidden" -> <<ReplyError(MESSAGE_NOT_FOUND, FORBIDDEN)>>
      [] self.variant = "NotFound" -> <<ReplyError(MESSAGE_FORBIDDEN, NOT_FOUND)>>
      [] self.variant = "InternalServerError" -> InternalArm(self)

\* variant: a bad request is logged too
into_response_log_all(self) ==
    CASE self.variant = "BadRequest" ->
            <<LogError(self.error), ReplyError(self.error, BAD_REQUEST)>>
      [] self.variant = "Forbidden" -> <<ReplyError(MESSAGE_FORBIDDEN, FORBIDDEN)>>
      [] self.variant = "NotFound" -> <<ReplyError(MESSAGE_NOT_FOUND, NOT_FOUND)>>
      [] self.variant = "InternalServerError" -> InternalArm(self)

into_response(self) ==
    CASE self.variant = "BadRequest" -> <<ReplyError(self.error, BAD_REQUEST)>>
      [] self.variant = "Forbidden" -> <<ReplyError(MESSAGE_FORBIDDEN, FORBIDDEN)>>
      [] self.variant = "NotFound" -> <<ReplyError(MESSAGE_NOT_FOUND, NOT_FOUND)>>
      [] self.variant = "InternalServerError" -> InternalArm(self)

\* ------------------------------------------------------------------ state
VARIABLES
    value,       \* Option<HTTPError>: the error value the handler holds
    made,        \* how the latest value was built: [via, arg]
    displayed,   \* Option<text>: what fmt wrote for `value`, dropped with it
    serialized,  \* Option: what serialize produced for `value`, dropped with it
    effects,     \* every tracing::error! and reply::error call so far, in order
    converted    \* the values consumed by into_response so far, in order

vars == <<value, made, displayed, serialized, effects, converted>>

NotMade == [via |-> "none", arg |-> <<>>]

Init ==
    /\ value = None
    /\ made = NotMade
    /\ displayed = None
    /\ serialized = None
    /\ effects = <<>>
    /\ converted = <<>>

CanConstruct == value = None /\ Len(converted) < MaxConversions

Construct(v, via, arg) ==
    /\ CanConstruct
    /\ value' = Some(v)
    /\ made' = [via |-> via, arg |-> arg]
    /\ displayed' = None
    /\ serialized' = None
    /\ UNCHANGED <<effects, converted>>

\* handler code calls HTTPError::bad_request(s)
CallBadRequest == \E s \in Texts : Construct(bad_request(s), "bad_request", s)

\* handler code calls HTTPError::internal_server_error(e)
CallInternalServerError ==
    \E e \in Texts : Construct(internal_server_error(e), "internal_server_error", e)

\* handler code writes a variant of the public enum directly
ConstructDirect == \E v \in HTTPError : Construct(v, "direct", <<>>)

\* format!("{}", value) / value.to_string(): Display::fmt by reference
CallFmt ==
    /\ value # None
    /\ displayed' = Some(fmt(value[1]))
    /\ UNCHANGED <<value, made, serialized, effects, converted>>

\* value.serialize(serializer) by reference
CallSerialize ==
    /\ value # None
    /\ serialized' = Some(serialize(value[1]))
    /\ UNCHANGED <<value, made, displayed, effects, converted>>

\* value.into_response(): consumes the value
CallIntoResponse ==
    /\ value # None
    /\ effects' = effects \o into_response(value[1])
    /\ converted' = Append(converted, [value |-> value[1], start |-> Len(effects)])
    /\ value' = None
    /\ displayed' = None
    /\ serialized' = None
    /\ UNCHANGED made

Next ==
    \/ CallBadRequest
    \/ CallInternalServerError
    \/ ConstructDirect
    \/ CallFmt
    \/ CallSerialize
    \/ CallIntoResponse

Spec == Init /\ [][Next]_vars

\* ------------------------------------------------- reading the history
\* the calls made by the i-th conversion: from where it started to where the
\* next one started
EffectsOf(i) ==
    SubSeq(effects, converted[i].start + 1,
           IF i < Len(converted) THEN converted[i + 1].start ELSE Len(effects))

IsLog(e) == e.kind = "log"
IsReply(e) == e.kind = "reply"
Logs(es) == SelectSeq(es, IsLog)
Replies(es) == SelectSeq(es, IsReply)

Conversions == 1..Len(converted)
IsInternal(v) == v.variant = "InternalServerError"
HasMessage(v) == v.variant \in {"BadRequest", "InternalServerError"}
HasNewline(text) == \E k \in 1..Len(text) : text[k] = NL

\* the latest value was built by `via` and has just been converted
JustConverted(via) == value = None /\ made.via = via /\ converted # <<>>
LastEffects == EffectsOf(Len(converted))

\* ------------------------------------------------------------------ C1
\* C1, as stated: converting internal_server_error(e) makes exactly one reply
\* call, with status 500 and the literal "internal server error" as message,
\* and that message never equals e.
C1_BodyNeverEqualsInput ==
    JustConverted("internal_server_error") =>
        /\ Replies(LastEffects) =
              <<[kind |-> "reply", status |-> 500,
                 text |-> MESSAGE_INTERNAL_SERVER_ERROR]>>
        /\ Replies(LastEffects)[1].text # made.arg

\* C1, amended: converting internal_server_error(e) makes exactly one reply
\* call, with status 500 and the literal "internal server error" as message;
\* the message equals e only when e is itself that literal.
C1_GenericBody ==
    JustConverted("internal_server_error") =>
        /\ Replies(LastEffects) =
              <<[kind |-> "reply", status |-> 500,
                 text |-> MESSAGE_INTERNAL_SERVER_ERROR]>>
        /\ (Replies(LastEffects)[1].text = made.arg
               <=> made.arg = MESSAGE_INTERNAL_SERVER_ERROR)

C1_Witness ==
    /\ JustConverted("internal_server_error")
    /\ made.arg = <<"a">>
    /\ Len(converted) = 2

\* ------------------------------------------------------------------ C2
\* C2: converting bad_request(s) makes exactly one reply call, with status 400
\* and s, unchanged, as message.
C2_BadRequestVerbatim ==
    JustConverted("bad_request") =>
        Replies(LastEffects) =
            <<[kind |-> "reply", status |-> 400, text |-> made.arg]>>

C2_Witness ==
    /\ JustConverted("bad_request")
    /\ HasNewline(made.arg)
    /\ Replies(LastEffects)[1].text = made.arg

\* ------------------------------------------------------------------ C3
\* C3: every conversion of an InternalServerError makes exactly two calls: first
\* one error-level log record whose text is the error text, followed by a
\* newline and the backtrace when there is one, and then the reply.
C3_OneLogBeforeReply ==
    \A i \in Conversions :
        IsInternal(converted[i].value) =>
            LET v == converted[i].value
                es == EffectsOf(i)
            IN  /\ Len(es) = 2
                /\ es[1] = [kind |-> "log", level |-> "ERROR",
                            text |-> IF v.backtrace = None
                                       THEN v.error
                                       ELSE v.error \o <<NL>> \o v.backtrace[1]]
                /\ IsReply(es[2])

C3_Witness ==
    /\ Len(converted) = 2
    /\ IsInternal(converted[1].value) /\ converted[1].value.backtrace = Some(<<"b">>)
    /\ IsInternal(converted[2].value) /\ converted[2].value.backtrace = None
    /\ Len(Logs(effects)) = 2

\* ------------------------------------------------------------------ C4
\* C4: whatever was converted before, converting Forbidden makes the single
\* call reply("forbidden", 403) and converting NotFound the single call
\* reply("not found", 404).
C4_ConstantReplies ==
    \A i \in Conversions :
        /\ converted[i].value = Forbidden =>
              EffectsOf(i) = <<[kind |-> "reply", status |-> 403,
                                text |-> MESSAGE_FORBIDDEN]>>
        /\ converted[i].value = NotFound =>
              EffectsOf(i) = <<[kind |-> "reply", status |-> 404,
                                text |-> MESSAGE_NOT_FOUND]>>

C4_Witness ==
    /\ Len(converted) = 2
    /\ IsInternal(converted[1].value)
    /\ converted[2].value = NotFound

\* ------------------------------------------------------------------ C5
\* C5: the number of log records equals the number of InternalServerError
\* values converted, and a conversion of any other variant adds none.
C5_LogOnlyForInternal ==
    /\ Len(Logs(effects)) =
          Cardinality({i \in Conversions : IsInternal(converted[i].value)})
    /\ \A i \in Conversions :
          ~IsInternal(converted[i].value) => Logs(EffectsOf(i)) = <<>>

C5_Witness ==
    /\ Len(converted) = 2
    /\ IsInternal(converted[1].value)
    /\ converted[2].value.variant = "BadRequest"
    /\ Len(Logs(effects)) = 1

\* ------------------------------------------------------------------ C6
\* C6: Display of internal_server_error(X) is "internal server error: " then X
\* and nothing more, of bad_request(X) "bad request: " then X, of Forbidden
\* "forbidden" and of NotFound "not found".
C6_DisplayText ==
    displayed # None =>
        /\ made.via = "internal_server_error" =>
              displayed[1] = FMT_INTERNAL_SERVER_ERROR \o made.arg
        /\ made.via = "bad_request" => displayed[1] = FMT_BAD_REQUEST \o made.arg
        /\ value[1] = Forbidden => displayed[1] = MESSAGE_FORBIDDEN
        /\ value[1] = NotFound => displayed[1] = MESSAGE_NOT_FOUND

C6_Witness ==
    /\ displayed # None
    /\ made.via = "internal_server_error"
    /\ made.arg = <<"a">>

\* ------------------------------------------------------------------ C7
\* C7: serialization writes no variant tag; Forbidden and NotFound serialize
\* to the same unit payload without fields; BadRequest{error: X} serializes to
\* a struct whose only field is error = X.
C7_Untagged ==
    serialized # None =>
        /\ serialized[1].tag = None
        /\ value[1] = Forbidden =>
              /\ serialized[1].shape = "unit" /\ serialized[1].fields = <<>>
              /\ serialized[1] = serialize(NotFound)
        /\ value[1] = NotFound =>
              /\ serialized[1].shape = "unit" /\ serialized[1].fields = <<>>
              /\ serialized[1] = serialize(Forbidden)
        /\ value[1].variant = "BadRequest" =>
              /\ serialized[1].shape = "struct"
              /\ Len(serialized[1].fields) = 1
              /\ serialized[1].fields[1].name = "error"
              /\ serialized[1].fields[1].val = value[1].error

C7_Witness ==
    /\ serialized # None
    /\ value[1].variant = "BadRequest"
    /\ value[1].error = <<"a">>

\* ------------------------------------------------------------------ C8
\* the InternalServerError values that have reached Display or into_response
Formatted == IF displayed # None THEN {value[1]} ELSE {}
Converted == {converted[i].value : i \in Conversions}

\* C8, as stated: every InternalServerError that reaches Display or
\* into_response has no backtrace, however it was built.
C8_BacktraceAlwaysAbsent ==
    \A v \in Formatted \cup Converted : IsInternal(v) => v.backtrace = None

\* C8, amended: every InternalServerError built by the constructor function
\* internal_server_error has no backtrace when it reaches Display or
\* into_response.
C8_ConstructorLeavesBacktraceAbsent ==
    made.via = "internal_server_error" =>
        /\ \A v \in Formatted : IsInternal(v) /\ v.backtrace = None
        /\ value = None =>
              LET v == converted[Len(converted)].value
              IN  IsInternal(v) /\ v.backtrace = None

C8_Witness ==
    /\ JustConverted("internal_server_error")
    /\ Len(Logs(LastEffects)) = 1

\* ------------------------------------------------------------------ C9
\* C9: any two conversions of InternalServerError values reply alike (same
\* status, same message), whatever their error texts and backtraces.
C9_ReplyIndependentOfPayload ==
    \A i, j \in Conversions :
        IsInternal(converted[i].value) /\ IsInternal(converted[j].value) =>
            Replies(EffectsOf(i)) = Replies(EffectsOf(j))

C9_Witness ==
    /\ Len(converted) = 2
    /\ IsInternal(converted[1].value) /\ IsInternal(converted[2].value)
    /\ converted[1].value.error # converted[2].value.error
    /\ converted[1].value.backtrace # converted[2].value.backtrace
    /\ Logs(EffectsOf(1)) # Logs(EffectsOf(2))

\* ------------------------------------------------------------------ C10
\* what Display writes for an InternalServerError with a backtrace
MessageLineThenBacktrace(v) ==
    FMT_INTERNAL_SERVER_ERROR \o v.error \o <<NL>> \o v.backtrace[1]

HasBacktrace(v) == IsInternal(v) /\ v.backtrace # None

\* C10, as stated: Display writes no newline for any value and any message
\* text, except an InternalServerError with a backtrace, for which it writes
\* the message line, a newline and the backtrace.
C10_SingleLineForEveryMessage ==
    displayed # None =>
        IF HasBacktrace(value[1])
          THEN displayed[1] = MessageLineThenBacktrace(value[1])
          ELSE ~HasNewline(displayed[1])

\* C10, amended: Display writes no newline for any value whose message text
\* contains none, except an InternalServerError with a backtrace, for which it
\* writes the message line, a newline and the backtrace.
C10_SingleLineForSingleLineMessage ==
    displayed # None =>
        IF HasBacktrace(value[1])
          THEN displayed[1] = MessageLineThenBacktrace(value[1])
          ELSE (HasMessage(value[1]) => ~HasNewline(value[1].error))
                  => ~HasNewline(displayed[1])

C10_Witness ==
    /\ displayed # None
    /\ value[1] = BadRequest(<<"a">>)
    /\ ~HasNewline(displayed[1])

====
